---- MODULE Spec2Model ----
(***************************************************************************)
(* Model of the save-file decoder of src/parse_save.py (PokemonSaveParser  *)
(* and PokemonData).                                                       *)
(*                                                                         *)
(* Representation.                                                         *)
(*  - A Python bytes / bytearray value is a record [len, nz]: len is its   *)
(*    length and nz maps the offsets of its non-zero bytes to their value  *)
(*    (1..255); every other offset below len holds 0.                      *)
(*  - A Python int that can exceed 2^31 - 1 (a u32 field, the checksum     *)
(*    accumulator) is a record [hi, lo] standing for hi * 2^16 + lo with   *)
(*    lo in 0..65535 and hi >= 0. hi is not limited to 16 bits, so the     *)
(*    accumulator of calculate_sector_checksum keeps every carry, as the   *)
(*    unbounded Python int does.                                           *)
(***************************************************************************)
EXTENDS Integers, Sequences, FiniteSets, TLC

VARIABLES
    disk,               \* the file at save_path: its bytes, or None when it does not exist
    save_data,          \* PokemonSaveParser.save_data
    forced_slot,        \* PokemonSaveParser.forced_slot: 0 stands for None, else 1 or 2
    active_slot_start,  \* PokemonSaveParser.active_slot_start
    sector_map,         \* PokemonSaveParser.sector_map: logical id -> physical index
    missing_critical,   \* the ids build_sector_map reports as missing (its warning)
    saveblock1_data,    \* local of parse_save_file
    saveblock2_data,    \* local of parse_save_file
    player_name,        \* local of parse_save_file
    party_pokemon,      \* local of parse_save_file
    play_time,          \* local of parse_save_file
    pc,                 \* position of parse_save_file
    err,                \* the exception raised, NoError when none
    op,                 \* pure-function specifications: the function applied
    arg,                \* ... its argument
    ret                 \* ... its result

vars == <<disk, save_data, forced_slot, active_slot_start, sector_map,
          missing_critical, saveblock1_data, saveblock2_data, player_name,
          party_pokemon, play_time, pc, err, op, arg, ret>>

pipeVars == <<disk, save_data, forced_slot, active_slot_start, sector_map,
              missing_critical, saveblock1_data, saveblock2_data, player_name,
              party_pokemon, play_time, pc, err>>

-----------------------------------------------------------------------------
(* Constants of src/parse_save.py *)

SECTOR_SIZE == 4096
SECTOR_DATA_SIZE == 3968
SECTOR_FOOTER_SIZE == 12
SAVEBLOCK1_SIZE == SECTOR_DATA_SIZE * 4
PARTY_START_OFFSET == 1704
PARTY_POKEMON_SIZE == 104
MAX_PARTY_SIZE == 6

\* 0x08012025 = 0x0801 * 2^16 + 0x2025
EMERALD_SIGNATURE == [hi |-> 2049, lo |-> 8229]

-----------------------------------------------------------------------------
(* Python ints wider than TLC's: hi * 2^16 + lo *)

Int0 == [hi |-> 0, lo |-> 0]

IntOf(n) == [hi |-> n \div 65536, lo |-> n % 65536]

IntAdd(a, b) ==
    LET l == a.lo + b.lo
    IN  [hi |-> a.hi + b.hi + (l \div 65536), lo |-> l % 65536]

IntGt(a, b) == a.hi > b.hi \/ (a.hi = b.hi /\ a.lo > b.lo)

IntGe(a, b) == a = b \/ IntGt(a, b)

Pow2(k) == 2 ^ k

\* a >> k, for 0 <= k <= 31
IntShr(a, k) ==
    IF k >= 16
    THEN LET h == a.hi \div Pow2(k - 16)
         IN  [hi |-> h \div 65536, lo |-> h % 65536]
    ELSE [hi |-> a.hi \div Pow2(k),
          lo |-> (a.hi % Pow2(k)) * Pow2(16 - k) + (a.lo \div Pow2(k))]

\* a & m for a mask m = 2^j - 1 <= 0xFFFF: the result fits a plain integer
IntAndLow(a, m) == a.lo % (m + 1)

-----------------------------------------------------------------------------
(* Python bytes *)

EmptyFn == [i \in {} |-> 0]

None == [len |-> -1, nz |-> EmptyFn]

Zeros(n) == [len |-> n, nz |-> EmptyFn]

\* b[i] for 0 <= i < len(b)
At(b, i) == IF i \in DOMAIN b.nz THEN b.nz[i] ELSE 0

Min(a, b) == IF a <= b THEN a ELSE b

\* b[lo:hi] for 0 <= lo <= hi: Python clamps both ends to len(b)
Slice(b, lo, hi) ==
    LET l == Min(lo, b.len)
        h == Min(hi, b.len)
        keep == {i \in DOMAIN b.nz : i >= l /\ i < h}
    IN  [len |-> h - l, nz |-> [j \in {i - l : i \in keep} |-> b.nz[j + l]]]

\* a + b
Concat(a, b) ==
    [len |-> a.len + b.len,
     nz  |-> [i \in (DOMAIN a.nz) \cup {j + a.len : j \in DOMAIN b.nz} |->
                 IF i < a.len THEN a.nz[i] ELSE b.nz[i - a.len]]]

\* buf[lo:hi] = src on a bytearray: the slice is replaced by src, whatever its length
SliceAssign(buf, lo, hi, src) ==
    Concat(Concat(Slice(buf, 0, lo), src), Slice(buf, Min(hi, buf.len), buf.len))

\* struct.unpack("<H", b[o:o+2]) and a ctypes c_uint16 field at offset o
U16At(b, o) == At(b, o) + 256 * At(b, o + 1)

\* struct.unpack("<I", b[o:o+4]) and a ctypes c_uint32 field at offset o
U32At(b, o) == [hi |-> U16At(b, o + 2), lo |-> U16At(b, o)]

-----------------------------------------------------------------------------
(* calculate_sector_checksum *)

\* the loop "for i in range(0, SECTOR_DATA_SIZE, 4): if i + 4 <= len(sector_data):
\* checksum += unpack("<I", sector_data[i:i+4])[0]" over the word indices W. It is
\* a sum of integers, so the order is immaterial; a word without a non-zero byte
\* adds 0, so W holds the indices of the words of the region that have one.
RECURSIVE SumWords(_, _)
SumWords(sector_data, W) ==
    IF W = {} THEN Int0
    ELSE LET w == CHOOSE x \in W : TRUE
         IN  IntAdd(SumWords(sector_data, W \ {w}),
                    IF 4 * w + 4 <= sector_data.len
                    THEN U32At(sector_data, 4 * w) ELSE Int0)

NonZeroWords(sector_data) ==
    {i \div 4 : i \in {j \in DOMAIN sector_data.nz : j < SECTOR_DATA_SIZE}}

\* checksum at the end of the loop
WordSum(sector_data) == SumWords(sector_data, NonZeroWords(sector_data))

\* the same fold with the final mask forgotten
Fold16NoMask(checksum) ==
    LET shifted == IntShr(checksum, 16)
        s == IntAdd(shifted, IntOf(IntAndLow(checksum, 65535)))
    IN  s.hi * 65536 + s.lo

\* ((checksum >> 16) + (checksum & 0xFFFF)) & 0xFFFF
Fold16(checksum) ==
    LET shifted == IntShr(checksum, 16)
    IN  IntAndLow(IntAdd(shifted, IntOf(IntAndLow(checksum, 65535))), 65535)

calculate_sector_checksum(sector_data) ==
    IF sector_data.len < SECTOR_DATA_SIZE THEN 0
    ELSE Fold16(WordSum(sector_data))

-----------------------------------------------------------------------------
(* get_sector_info *)

\* "not self.save_data": the attribute is None or an empty bytes object
NotLoaded(data) == data = None \/ data.len = 0

SectorInfo(id, checksum, counter, valid) ==
    [id |-> id, checksum |-> checksum, counter |-> counter, valid |-> valid]

\* a valid flag that ignores the checksum
ChecksumIgnored(calculated_checksum, checksum) == TRUE

\* a valid flag that is never set
ChecksumNever(calculated_checksum, checksum) == FALSE

\* the valid flag of a sector whose signature matches
ChecksumMatches(calculated_checksum, checksum) == calculated_checksum = checksum

\* a signature test that is never applied
SignatureIgnored(signature) == TRUE

\* the footer's signature test
SignatureMatches(signature) == signature = EMERALD_SIGNATURE

\* get_sector_info for loaded data; callers raise "Save data not loaded" when
\* NotLoaded(data). The except clause (struct.error, IndexError) cannot be
\* entered: the footer slice is 12 bytes long after the length test.
get_sector_info(data, sector_index) ==
    LET footer_offset == (sector_index * SECTOR_SIZE) + SECTOR_SIZE - SECTOR_FOOTER_SIZE
        \* struct.unpack("<HHII", data[footer_offset:footer_offset + 12])
        sector_id == U16At(data, footer_offset)
        checksum == U16At(data, footer_offset + 2)
        signature == U32At(data, footer_offset + 4)
        counter == U32At(data, footer_offset + 8)
        sector_start == sector_index * SECTOR_SIZE
        sector_data == Slice(data, sector_start, sector_start + SECTOR_DATA_SIZE)
    IN  IF footer_offset + SECTOR_FOOTER_SIZE > data.len
        THEN SectorInfo(-1, 0, Int0, FALSE)
        ELSE IF ~SignatureMatches(signature)
        THEN SectorInfo(sector_id, checksum, counter, FALSE)
        ELSE SectorInfo(sector_id, checksum, counter,
                        ChecksumMatches(calculate_sector_checksum(sector_data), checksum))

-----------------------------------------------------------------------------
(* determine_active_slot *)

\* range(18) and range(14, 32)
Slot1Range == 0 .. 17
Slot2Range == 14 .. 31

\* max((get_sector_info(i).counter for i in R if get_sector_info(i).valid), default=0)
MaxValidCounter(data, R) ==
    LET C == {sector_info.counter :
                  sector_info \in {si \in {get_sector_info(data, i) : i \in R} : si.valid}}
    IN  IF C = {} THEN Int0 ELSE CHOOSE c \in C : \A d \in C : IntGe(c, d)

\* a tie-break toward slot 1
PickSlotStrict(slot1_counter, slot2_counter) ==
    IF IntGt(slot2_counter, slot1_counter) THEN 14 ELSE 0

\* a choice that always takes slot 2
PickSlotSecond(slot1_counter, slot2_counter) == 14

\* "14 if slot2_counter >= slot1_counter else 0"
PickSlot(slot1_counter, slot2_counter) ==
    IF IntGe(slot2_counter, slot1_counter) THEN 14 ELSE 0

\* a forced start that takes label 1 for slot 2
ForcedSlotStartSwapped(forced) == IF forced = 1 THEN 14 ELSE 0

\* "0 if self.forced_slot == 1 else 14": active_slot_start when forced_slot is set
ForcedSlotStart(forced) == IF forced = 1 THEN 0 ELSE 14

\* the value assigned to active_slot_start when forced_slot is None
AutoSlotStart(data) ==
    PickSlot(MaxValidCounter(data, Slot1Range), MaxValidCounter(data, Slot2Range))

-----------------------------------------------------------------------------
(* build_sector_map *)

\* d[k] = v on a dict
DictPut(d, k, v) == [x \in (DOMAIN d) \cup {k} |-> IF x = k THEN v ELSE d[x]]

\* the physical indices of R whose sector get_sector_info reports valid
ValidSectors(data, R) == {i \in R : get_sector_info(data, i).valid}

\* a primary scan that keeps the first valid sector of an id
PrimaryStepKeepFirst(data, map, i) ==
    LET sector_info == get_sector_info(data, i)
    IN  IF sector_info.valid /\ sector_info.id \notin DOMAIN map
        THEN DictPut(map, sector_info.id, i) ELSE map

\* body of "for i in primary_range": if sector_info.valid: sector_map[sector_info.id] = i
PrimaryStep(data, map, i) ==
    LET sector_info == get_sector_info(data, i)
    IN  IF sector_info.valid THEN DictPut(map, sector_info.id, i) ELSE map

\* body of "for i in other_range": if sector_info.valid and sector_info.id in
\* missing_critical: sector_map[id] = i; missing_critical.remove(id).
\* st = [map, missing]; the list missing_critical holds distinct ids, kept as a set
RecoverStep(data, st, i) ==
    LET sector_info == get_sector_info(data, i)
    IN  IF sector_info.valid /\ sector_info.id \in st.missing
        THEN [map |-> DictPut(st.map, sector_info.id, i),
              missing |-> st.missing \ {sector_info.id}]
        ELSE st

\* Every loop of build_sector_map does nothing for a sector that is not valid, so
\* each loop below runs its body for the valid indices S of its range, ascending.

\* "for i in primary_range: ..." of the forced-slot branch
RECURSIVE PrimaryLoop(_, _, _)
PrimaryLoop(data, S, map) ==
    IF S = {} THEN map
    ELSE LET i == CHOOSE x \in S : \A y \in S : x <= y
         IN  PrimaryLoop(data, S \ {i}, PrimaryStep(data, map, i))

\* "for i in other_range: ..." of the forced-slot branch
RECURSIVE RecoverLoop(_, _, _)
RecoverLoop(data, S, st) ==
    IF S = {} THEN st
    ELSE LET i == CHOOSE x \in S : \A y \in S : x <= y
         IN  RecoverLoop(data, S \ {i}, RecoverStep(data, st, i))

\* a list of missing ids that reaches one id past the critical ones
MissingUpToFive(map) == {i \in 0 .. 5 : i \notin DOMAIN map}

\* [i for i in range(5) if i not in self.sector_map]
MissingCritical(map) == {i \in 0 .. 4 : i \notin DOMAIN map}

\* the forced-slot branch: [map, missing] at its end
BuildForced(data, forced) ==
    LET primary_lo == IF forced = 1 THEN 0 ELSE 14
        primary_hi == IF forced = 1 THEN 17 ELSE 31
        other_lo == IF forced = 1 THEN 14 ELSE 0
        other_hi == IF forced = 1 THEN 31 ELSE 17
        primary == PrimaryLoop(data, ValidSectors(data, primary_lo .. primary_hi), EmptyFn)
    IN  RecoverLoop(data, ValidSectors(data, other_lo .. other_hi),
                    [map |-> primary, missing |-> MissingCritical(primary)])

\* a scan in which the last valid sector of an id always replaces the earlier one
ReplacesAlways(all_sectors, sector_info) == TRUE

\* "sector_id not in all_sectors or sector_info.counter > all_sectors[sector_id][1]"
Replaces(all_sectors, sector_info) ==
    \/ sector_info.id \notin DOMAIN all_sectors
    \/ IntGt(sector_info.counter, all_sectors[sector_info.id][2])

\* body of "for i in range(32)" of the auto-detect branch; all_sectors maps
\* sector_id -> <<physical_sector, counter>>
ScanStep(data, all_sectors, i) ==
    LET sector_info == get_sector_info(data, i)
    IN  IF sector_info.valid /\ Replaces(all_sectors, sector_info)
        THEN DictPut(all_sectors, sector_info.id, <<i, sector_info.counter>>)
        ELSE all_sectors

\* "for i in range(32): ..." of the auto-detect branch
RECURSIVE ScanLoop(_, _, _)
ScanLoop(data, S, all_sectors) ==
    IF S = {} THEN all_sectors
    ELSE LET i == CHOOSE x \in S : \A y \in S : x <= y
         IN  ScanLoop(data, S \ {i}, ScanStep(data, all_sectors, i))

\* the auto-detect branch: [map, missing] at its end
BuildAuto(data) ==
    LET all_sectors == ScanLoop(data, ValidSectors(data, 0 .. 31), EmptyFn)
        map == [sector_id \in DOMAIN all_sectors |-> all_sectors[sector_id][1]]
    IN  [map |-> map, missing |-> MissingCritical(map)]

-----------------------------------------------------------------------------
(* extract_saveblock1 / extract_saveblock2 *)

\* the list built from range(1, 4)
Saveblock1SectorsShort(map) == {i \in 1 .. 3 : i \in DOMAIN map}

\* [i for i in range(1, 5) if i in self.sector_map]
Saveblock1Sectors(map) == {i \in 1 .. 4 : i \in DOMAIN map}

\* a chunk offset that forgets the "- 1"
ChunkOffsetFromZero(sector_id) == sector_id * SECTOR_DATA_SIZE

\* offset of the chunk of logical id sector_id in the block
ChunkOffset(sector_id) == (sector_id - 1) * SECTOR_DATA_SIZE

\* the copy loop of extract_saveblock1 over the present ids sector_id .. 4, ascending
RECURSIVE CopyChunks(_, _, _, _)
CopyChunks(data, map, sector_id, saveblock1) ==
    IF sector_id > 4 THEN saveblock1
    ELSE IF sector_id \notin DOMAIN map
    THEN CopyChunks(data, map, sector_id + 1, saveblock1)
    ELSE LET start_offset == map[sector_id] * SECTOR_SIZE
             sector_data == Slice(data, start_offset, start_offset + SECTOR_DATA_SIZE)
             chunk_offset == ChunkOffset(sector_id)
         IN  CopyChunks(data, map, sector_id + 1,
                        SliceAssign(saveblock1, chunk_offset,
                                    chunk_offset + SECTOR_DATA_SIZE,
                                    Slice(sector_data, 0, SECTOR_DATA_SIZE)))

\* a reassembly that puts the chunk of the lowest id present at the head of the block
Saveblock1OfPacked(data, map) ==
    LET first == CHOOSE i \in Saveblock1Sectors(map) :
                    \A j \in Saveblock1Sectors(map) : i <= j
        start_offset == map[first] * SECTOR_SIZE
    IN  SliceAssign(Zeros(SAVEBLOCK1_SIZE), 0, SECTOR_DATA_SIZE,
                    Slice(data, start_offset, start_offset + SECTOR_DATA_SIZE))

\* a reassembly that starts from an empty bytearray
Saveblock1OfFromEmpty(data, map) == CopyChunks(data, map, 1, Zeros(0))

\* the buffer extract_saveblock1 returns when it raises nothing
Saveblock1Of(data, map) == CopyChunks(data, map, 1, Zeros(SAVEBLOCK1_SIZE))

\* a block that runs to the end of the physical sector
Saveblock2OfWholeSector(data, map) ==
    LET start_offset == map[0] * SECTOR_SIZE
    IN  Slice(data, start_offset, start_offset + SECTOR_SIZE)

\* the bytes extract_saveblock2 returns when it raises nothing
Saveblock2Of(data, map) ==
    LET start_offset == map[0] * SECTOR_SIZE
    IN  Slice(data, start_offset, start_offset + SECTOR_DATA_SIZE)

-----------------------------------------------------------------------------
(* PokemonData, SaveBlock2 and the parse_* methods *)

\* ctypes.sizeof(SaveBlock2): 8 + 8 + 4 + 1 + 1
SizeofSaveBlock2 == 22

\* PokemonData.from_buffer_copy(pokemon_data) with raw_bytes attached: the fields
\* the decoder reads back, at their offsets in the packed structure
PokemonDataOf(pokemon_data) ==
    [personality |-> U32At(pokemon_data, 0),
     otId        |-> U32At(pokemon_data, 4),
     currentHp   |-> U16At(pokemon_data, 35),
     speciesId   |-> U16At(pokemon_data, 40),
     item        |-> U16At(pokemon_data, 42),
     ivData      |-> U32At(pokemon_data, 80),
     level       |-> At(pokemon_data, 88),
     maxHp       |-> U16At(pokemon_data, 90),
     raw_bytes   |-> pokemon_data]

\* a decoder that skips empty slots instead of stopping at them
IsTerminatorNever(pokemon_struct) == FALSE

\* "if pokemon_struct.speciesId == 0: break"
IsTerminator(pokemon_struct) == pokemon_struct.speciesId = 0

\* a decoder that never finds a window too short
WindowTooShortNever(pokemon_data) == FALSE

\* "if len(pokemon_data) < PARTY_POKEMON_SIZE: break", and the same test against
\* ctypes.sizeof(PokemonData), which is PARTY_POKEMON_SIZE
WindowTooShort(pokemon_data) == pokemon_data.len < PARTY_POKEMON_SIZE

\* the loop of parse_party_pokemon from slot on; party_pokemon is the list so far
RECURSIVE PartyFrom(_, _, _)
PartyFrom(saveblock1, slot, party) ==
    IF slot >= MAX_PARTY_SIZE THEN party
    ELSE LET pokemon_offset == PARTY_START_OFFSET + slot * PARTY_POKEMON_SIZE
             pokemon_data == Slice(saveblock1, pokemon_offset,
                                   pokemon_offset + PARTY_POKEMON_SIZE)
         IN  IF WindowTooShort(pokemon_data) THEN party
             ELSE IF IsTerminator(PokemonDataOf(pokemon_data)) THEN party
             ELSE PartyFrom(saveblock1, slot + 1,
                            Append(party, PokemonDataOf(pokemon_data)))

parse_party_pokemon(saveblock1) == PartyFrom(saveblock1, 0, <<>>)

\* decode_pokemon_string: the bytes before the first 0xFF; each is handed to the
\* external character map, so the result is kept as the sequence of byte codes
RECURSIVE DecodeFrom(_, _)
DecodeFrom(encoded_bytes, i) ==
    IF i >= encoded_bytes.len \/ At(encoded_bytes, i) = 255 THEN <<>>
    ELSE <<At(encoded_bytes, i)>> \o DecodeFrom(encoded_bytes, i + 1)

decode_pokemon_string(encoded_bytes) == DecodeFrom(encoded_bytes, 0)

\* parse_player_name when the block is large enough
PlayerNameOf(saveblock2) == decode_pokemon_string(Slice(saveblock2, 0, 8))

\* parse_play_time when the block is large enough
PlayTimeOf(saveblock2) ==
    [hours |-> U32At(saveblock2, 16), minutes |-> At(saveblock2, 20),
     seconds |-> At(saveblock2, 21)]

\* ivs with a four-bit mask
IvsMask4(iv_data) ==
    [i \in 1 .. 6 |-> IntAndLow(IntShr(iv_data, 5 * (i - 1)), 15)]

\* PokemonData.ivs for the field ivData
Ivs(iv_data) ==
    [i \in 1 .. 6 |-> IntAndLow(IntShr(iv_data, 5 * (i - 1)), 31)]

-----------------------------------------------------------------------------
(* State after PokemonSaveParser.__init__ / before parse_save_file has run *)

\* no exception has been raised
NoError == [kind |-> "none", msg |-> ""]

Constructed(forced) ==
    /\ save_data = None
    /\ forced_slot = forced
    /\ active_slot_start = 0
    /\ sector_map = EmptyFn
    /\ missing_critical = {}
    /\ saveblock1_data = None
    /\ saveblock2_data = None
    /\ player_name = None
    /\ party_pokemon = <<>>
    /\ play_time = <<>>
    /\ pc = "new"
    /\ err = NoError

-----------------------------------------------------------------------------
(* parse_save_file, one action per call it makes *)

ValueError(msg) == [kind |-> "ValueError", msg |-> msg]

\* the exception load_save_file raises when the path does not exist
SaveFileNotFound == [kind |-> "FileNotFoundError", msg |-> "Save file not found"]

\* the exceptions the stages of the pipeline raise
SaveDataNotLoaded == ValueError("Save data not loaded")
NoSaveBlock1Sectors == ValueError("No SaveBlock1 sectors found")
SaveBlock2NotFound == ValueError("SaveBlock2 sector (ID 0) not found")
SaveBlock2TooSmall == ValueError("SaveBlock2 data too small")

\* an exception that is swallowed, the parse returning a result all the same
RaiseSwallowed(e) ==
    /\ pc' = "done"
    /\ err' = e

\* an exception leaves parse_save_file: no later statement runs, nothing is returned
Raise(e) ==
    /\ pc' = "failed"
    /\ err' = e

load_save_file ==
    /\ pc = "new"
    /\ IF disk = None
       THEN /\ Raise(SaveFileNotFound)
            /\ UNCHANGED save_data
       ELSE /\ save_data' = disk
            /\ pc' = "loaded"
            /\ UNCHANGED err
    /\ UNCHANGED <<disk, forced_slot, active_slot_start, sector_map, missing_critical,
                   saveblock1_data, saveblock2_data, player_name, party_pokemon,
                   play_time, op, arg, ret>>

determine_active_slot ==
    /\ pc = "loaded"
    /\ IF forced_slot # 0
       THEN /\ active_slot_start' = ForcedSlotStart(forced_slot)
            /\ pc' = "slot"
            /\ UNCHANGED err
       ELSE IF NotLoaded(save_data)
       THEN /\ Raise(SaveDataNotLoaded)
            /\ UNCHANGED active_slot_start
       ELSE /\ active_slot_start' = AutoSlotStart(save_data)
            /\ pc' = "slot"
            /\ UNCHANGED err
    /\ UNCHANGED <<disk, save_data, forced_slot, sector_map, missing_critical,
                   saveblock1_data, saveblock2_data, player_name, party_pokemon,
                   play_time, op, arg, ret>>

build_sector_map ==
    /\ pc = "slot"
    /\ IF NotLoaded(save_data)
       THEN /\ Raise(SaveDataNotLoaded)
            /\ sector_map' = EmptyFn
            /\ UNCHANGED missing_critical
       ELSE LET built == IF forced_slot # 0 THEN BuildForced(save_data, forced_slot)
                         ELSE BuildAuto(save_data)
            IN  /\ sector_map' = built.map
                /\ missing_critical' = built.missing
                /\ pc' = "mapped"
                /\ UNCHANGED err
    /\ UNCHANGED <<disk, save_data, forced_slot, active_slot_start,
                   saveblock1_data, saveblock2_data, player_name, party_pokemon,
                   play_time, op, arg, ret>>

extract_saveblock1 ==
    /\ pc = "mapped"
    /\ IF NotLoaded(save_data)
       THEN /\ Raise(SaveDataNotLoaded)
            /\ UNCHANGED saveblock1_data
       ELSE IF Saveblock1Sectors(sector_map) = {}
       THEN /\ Raise(NoSaveBlock1Sectors)
            /\ UNCHANGED saveblock1_data
       ELSE /\ saveblock1_data' = Saveblock1Of(save_data, sector_map)
            /\ pc' = "sb1"
            /\ UNCHANGED err
    /\ UNCHANGED <<disk, save_data, forced_slot, active_slot_start, sector_map,
                   missing_critical, saveblock2_data, player_name, party_pokemon,
                   play_time, op, arg, ret>>

extract_saveblock2 ==
    /\ pc = "sb1"
    /\ IF NotLoaded(save_data)
       THEN /\ Raise(SaveDataNotLoaded)
            /\ UNCHANGED saveblock2_data
       ELSE IF 0 \notin DOMAIN sector_map
       THEN /\ Raise(SaveBlock2NotFound)
            /\ UNCHANGED saveblock2_data
       ELSE /\ saveblock2_data' = Saveblock2Of(save_data, sector_map)
            /\ pc' = "sb2"
            /\ UNCHANGED err
    /\ UNCHANGED <<disk, save_data, forced_slot, active_slot_start, sector_map,
                   missing_critical, saveblock1_data, player_name, party_pokemon,
                   play_time, op, arg, ret>>

parse_player_name ==
    /\ pc = "sb2"
    /\ IF saveblock2_data.len < SizeofSaveBlock2
       THEN /\ Raise(SaveBlock2TooSmall)
            /\ UNCHANGED player_name
       ELSE /\ player_name' = PlayerNameOf(saveblock2_data)
            /\ pc' = "name"
            /\ UNCHANGED err
    /\ UNCHANGED <<disk, save_data, forced_slot, active_slot_start, sector_map,
                   missing_critical, saveblock1_data, saveblock2_data, party_pokemon,
                   play_time, op, arg, ret>>

call_parse_party_pokemon ==
    /\ pc = "name"
    /\ party_pokemon' = parse_party_pokemon(saveblock1_data)
    /\ pc' = "party"
    /\ UNCHANGED <<disk, save_data, forced_slot, active_slot_start, sector_map,
                   missing_critical, saveblock1_data, saveblock2_data, player_name,
                   play_time, err, op, arg, ret>>

parse_play_time ==
    /\ pc = "party"
    /\ IF saveblock2_data.len < SizeofSaveBlock2
       THEN /\ Raise(SaveBlock2TooSmall)
            /\ UNCHANGED play_time
       ELSE /\ play_time' = PlayTimeOf(saveblock2_data)
            /\ pc' = "done"
            /\ UNCHANGED err
    /\ UNCHANGED <<disk, save_data, forced_slot, active_slot_start, sector_map,
                   missing_critical, saveblock1_data, saveblock2_data, player_name,
                   party_pokemon, op, arg, ret>>

Next ==
    \/ load_save_file
    \/ determine_active_slot
    \/ build_sector_map
    \/ extract_saveblock1
    \/ extract_saveblock2
    \/ parse_player_name
    \/ call_parse_party_pokemon
    \/ parse_play_time

-----------------------------------------------------------------------------
(* Save files tried *)

\* highest counter of a valid sector
MaxCounter == 2

\* sector ids written into footers: save block 2 (0), the first and the last sector
\* of save block 1 (1, 4) and one id outside the critical range 0..4
SectorIds == {0, 1, 4, 5}

\* physical indices that hold a footer: the first or the last sector of the part of
\* slot 1 outside slot 2, of the overlap of the two ranges, and of the part of slot 2
\* outside slot 1
CellIndex(low, cell) ==
    IF low THEN (IF cell = 1 THEN 0 ELSE IF cell = 2 THEN 14 ELSE 18)
    ELSE (IF cell = 1 THEN 13 ELSE IF cell = 2 THEN 17 ELSE 31)

\* little-endian encodings as sets of <<offset, byte>>
LE16(o, v) == {<<o, v % 256>>, <<o + 1, v \div 256>>}
LE32(o, v) == LE16(o, v.lo) \cup LE16(o + 2, v.hi)

\* bytes of length n holding the <<offset, byte>> pairs P (offsets distinct)
BytesOf(n, P) ==
    [len |-> n,
     nz  |-> [o \in {q[1] : q \in {r \in P : r[2] # 0}} |->
                 (CHOOSE q \in P : q[1] = o)[2]]]

\* species ids of the six party slots written into the data region of a cell
PartySpecies(cell) ==
    IF cell = 1 THEN <<25, 256, 0, 27, 0, 0>>
    ELSE IF cell = 2 THEN <<1, 2, 3, 300, 5, 6>>
    ELSE <<0, 7, 0, 0, 8, 0>>

\* one party record at offset o: species, ivData (bits 30 and 31 set), level; an
\* empty slot keeps a non-zero level byte
RecordPairs(o, species, k) ==
    IF species = 0 THEN {<<o + 88, 9>>}
    ELSE LE16(o + 40, species) \cup LE32(o + 80, [hi |-> 49152 + k, lo |-> 1057 * k])
         \cup {<<o + 88, 5 + k>>}

\* the data region written into a cell: a name and play time at the head (read when
\* the sector is save block 2), six party slots (read when it is the first sector
\* of save block 1), and a non-zero last byte
CellData(cell) ==
    {<<0, 186 + cell>>, <<1, 255>>, <<2, 77>>, <<16, cell>>, <<21, 20 + cell>>,
     <<SECTOR_DATA_SIZE - 1, 64 + cell>>}
    \cup UNION {RecordPairs(PARTY_START_OFFSET + (k - 1) * PARTY_POKEMON_SIZE,
                            PartySpecies(cell)[k], k) : k \in 1 .. MAX_PARTY_SIZE}

\* a sector at physical index p: data region, footer {id, checksum, signature, counter}
SectorPairs(p, data, id, checksum, signature, counter) ==
    LET base == p * SECTOR_SIZE
        footer == base + SECTOR_SIZE - SECTOR_FOOTER_SIZE
    IN  {<<base + q[1], q[2]>> : q \in data}
        \cup LE16(footer, id) \cup LE16(footer + 2, checksum)
        \cup LE32(footer + 4, signature) \cup LE32(footer + 8, counter)

\* what a cell holds: nothing (the sector stays zero), a sector with a correct
\* signature and checksum, or one whose stored checksum is off by one and whose
\* counter is above every valid one
CellChoices ==
    {[kind |-> "blank", id |-> 0, counter |-> 0]}
    \cup [kind : {"ok"}, id : SectorIds, counter : 1 .. MaxCounter]
    \cup [kind : {"badsum"}, id : SectorIds, counter : {MaxCounter + 1}]

\* the checksum of the data region of each cell
CellSums ==
    [cell \in 1 .. 3 |->
        calculate_sector_checksum(BytesOf(SECTOR_DATA_SIZE, CellData(cell)))]

\* the kinds of sector written: correct signature and checksum ("ok"), stored
\* checksum off by one ("badsum"), signature off by one with a correct ("badsig")
\* and with a wrong checksum ("badboth")
SectorKinds == {"ok", "badsum", "badsig", "badboth"}

\* the non-zero bytes of the sector a cell holds, as a function offset -> byte
CellBytes(low, cell, c) ==
    BytesOf(32 * SECTOR_SIZE,
            SectorPairs(CellIndex(low, cell), CellData(cell), c.id,
                        IF c.kind \in {"ok", "badsig"} THEN CellSums[cell]
                        ELSE (CellSums[cell] + 1) % 65536,
                        IF c.kind \in {"ok", "badsum"} THEN EMERALD_SIGNATURE
                        ELSE IntAdd(EMERALD_SIGNATURE, IntOf(1)),
                        IntOf(c.counter))).nz

\* CellBytes for every sector the files are built from
CellTable ==
    [k \in BOOLEAN \X (1 .. 3) \X
           [kind : SectorKinds, id : SectorIds, counter : 0 .. MaxCounter + 1] |->
        CellBytes(k[1], k[2], k[3])]

CellNz(low, cell, c) ==
    IF c.kind = "blank" THEN EmptyFn ELSE CellTable[<<low, cell, c>>]

\* a 32-sector file whose three cells hold cs[1], cs[2], cs[3]
FileOf(low, cs) ==
    [len |-> 32 * SECTOR_SIZE,
     nz  |-> CellNz(low, 1, cs[1]) @@ CellNz(low, 2, cs[2]) @@ CellNz(low, 3, cs[3])]

Files ==
    {FileOf(low, cs) : low \in BOOLEAN, cs \in [1 .. 3 -> CellChoices]}

\* 32-sector files that are zero but for one footer, in slot 1 outside slot 2: id 0,
\* the checksum of a zero data region, the signature, counter 10
SyntheticFiles ==
    {BytesOf(32 * SECTOR_SIZE,
             SectorPairs(CellIndex(low, 1), {}, 0, calculate_sector_checksum(Zeros(SECTOR_DATA_SIZE)),
                         EMERALD_SIGNATURE, IntOf(10))) : low \in BOOLEAN}

\* files cut short: right before the last byte of the footer of sector 17, which
\* leaves that footer outside the buffer, and to less than one sector
TruncatedFiles ==
    {Slice(FileOf(low, cs), 0, n) :
        low \in BOOLEAN,
        cs \in [1 .. 3 -> {[kind |-> "blank", id |-> 0, counter |-> 0]}
                             \cup [kind : {"ok"}, id : SectorIds, counter : {1}]],
        n \in {18 * SECTOR_SIZE - 1, 100}}

Init ==
    /\ disk \in Files \cup SyntheticFiles \cup TruncatedFiles \cup {None, Zeros(0)}
    /\ \E forced \in {0, 1, 2} : Constructed(forced)
    /\ op = "parse_save_file"
    /\ arg = 0
    /\ ret = 0

Spec == Init /\ [][Next]_vars

\* Specification SpecMap: parse_save_file up to the end of build_sector_map
NextMap == load_save_file \/ determine_active_slot \/ build_sector_map

SpecMap == Init /\ [][NextMap]_vars

-----------------------------------------------------------------------------
(* What the claims say of a file, read off its bytes *)

FooterOffset(p) == p * SECTOR_SIZE + SECTOR_SIZE - SECTOR_FOOTER_SIZE
FooterInside(data, p) == FooterOffset(p) + SECTOR_FOOTER_SIZE <= data.len
FooterId(data, p) == U16At(data, FooterOffset(p))
FooterChecksum(data, p) == U16At(data, FooterOffset(p) + 2)
FooterSignature(data, p) == U32At(data, FooterOffset(p) + 4)
FooterCounter(data, p) == U32At(data, FooterOffset(p) + 8)
DataRegion(data, p) == Slice(data, p * SECTOR_SIZE, p * SECTOR_SIZE + SECTOR_DATA_SIZE)

\* signature ok and checksum ok
SectorIsValid(data, p) ==
    /\ FooterInside(data, p)
    /\ FooterSignature(data, p) = EMERALD_SIGNATURE
    /\ calculate_sector_checksum(DataRegion(data, p)) = FooterChecksum(data, p)

ValidIn(data, R) == {p \in R : SectorIsValid(data, p)}

\* the maximum counter among the valid sectors of R is >= c (0 when there is none)
RegionMaxAtLeast(data, R, c) ==
    c = Int0 \/ \E p \in ValidIn(data, R) : IntGe(FooterCounter(data, p), c)

\* C1: with no forced slot, region B (start 14) is selected exactly when the maximum
\* counter of its valid sectors is >= that of region A's valid sectors (0 for a region
\* without a valid sector), otherwise region A (start 0)
C1_SlotByHighestValidCounter ==
    (pc = "slot" /\ forced_slot = 0) =>
        LET bWins == \A a \in ValidIn(save_data, Slot1Range) :
                        RegionMaxAtLeast(save_data, Slot2Range, FooterCounter(save_data, a))
        IN  active_slot_start = (IF bWins THEN 14 ELSE 0)

\* C1 witness: both regions hold a valid sector outside the other region, their maxima
\* are equal and not 0, an invalid sector carries a higher counter, and B was selected
C1_Witness ==
    /\ pc = "slot" /\ forced_slot = 0 /\ active_slot_start = 14
    /\ \E a \in ValidIn(save_data, Slot1Range \ Slot2Range) :
       \E b \in ValidIn(save_data, Slot2Range \ Slot1Range) :
          /\ FooterCounter(save_data, a) = FooterCounter(save_data, b)
          /\ FooterCounter(save_data, a) # Int0
          /\ \A q \in ValidIn(save_data, 0 .. 31) :
                IntGe(FooterCounter(save_data, a), FooterCounter(save_data, q))
    /\ \E q \in (0 .. 31) \ ValidIn(save_data, 0 .. 31) :
          \A a \in ValidIn(save_data, 0 .. 31) :
             IntGt(FooterCounter(save_data, q), FooterCounter(save_data, a))

\* C4: every entry id -> p of sector_map refers to a valid sector p whose footer id
\* is id, in auto-detect and in forced-slot mode
C4_MapOnlyValidSectors ==
    \A id \in DOMAIN sector_map :
        /\ sector_map[id] \in 0 .. 31
        /\ SectorIsValid(save_data, sector_map[id])
        /\ FooterId(save_data, sector_map[id]) = id

\* C4 witness: a forced-slot map was built over a file that holds an invalid sector
\* with a matching signature, whose id is mapped to another, valid sector
C4_Witness ==
    /\ pc = "mapped" /\ forced_slot # 0
    /\ \E q \in (0 .. 31) \ ValidIn(save_data, 0 .. 31) :
          /\ FooterSignature(save_data, q) = EMERALD_SIGNATURE
          /\ FooterId(save_data, q) \in DOMAIN sector_map

\* the sectors build_sector_map scans for every id: all of them in auto-detect mode,
\* the forced slot's range in forced-slot mode
Searched == IF forced_slot = 0 THEN 0 .. 31
            ELSE IF forced_slot = 1 THEN Slot1Range ELSE Slot2Range

HighestCounterWins ==
    \A p \in ValidIn(save_data, Searched) :
        /\ FooterId(save_data, p) \in DOMAIN sector_map
        /\ IntGe(FooterCounter(save_data, sector_map[FooterId(save_data, p)]),
                 FooterCounter(save_data, p))

C6_Saveblock1FailsIffNoSector ==
    [][pc = "mapped" =>
          IF \A id \in 1 .. 4 : id \notin DOMAIN sector_map
          THEN pc' = "failed" /\ err'.msg = "No SaveBlock1 sectors found"
          ELSE pc' = "sb1" /\ err' = NoError /\ saveblock1_data'.len = SAVEBLOCK1_SIZE]_vars

\* C6 witness: the block was returned with exactly one of the ids 1..4 in the map
C6_Witness ==
    /\ pc = "sb1"
    /\ Cardinality({id \in 1 .. 4 : id \in DOMAIN sector_map}) = 1

\* C7: in the buffer extract_saveblock1 returns, the chunk of every id in 1..4 holds
\* the data region of sector sector_map[id] when id is mapped, and zeros when not
C7_ChunksPlacedById ==
    pc \in {"sb1", "sb2", "name", "party", "done"} =>
        \A id \in 1 .. 4 :
            Slice(saveblock1_data, (id - 1) * SECTOR_DATA_SIZE, id * SECTOR_DATA_SIZE)
              = IF id \in DOMAIN sector_map
                THEN DataRegion(save_data, sector_map[id])
                ELSE Zeros(SECTOR_DATA_SIZE)

\* C7 witness: the block was assembled from sectors whose physical order is the
\* reverse of their logical order
C7_Witness ==
    /\ pc = "sb1"
    /\ {1, 4} \subseteq DOMAIN sector_map
    /\ sector_map[4] < sector_map[1]
    /\ DataRegion(save_data, sector_map[4]) # DataRegion(save_data, sector_map[1])

\* C8: extract_saveblock2 fails exactly when id 0 is not in sector_map; otherwise it
\* returns the data region of sector sector_map[0], whatever else the map holds
C8_Saveblock2IsSectorZero ==
    [][pc = "sb1" =>
          IF 0 \in DOMAIN sector_map
          THEN /\ pc' = "sb2" /\ err' = NoError
               /\ saveblock2_data' = DataRegion(save_data, sector_map[0])
          ELSE pc' = "failed" /\ err'.msg = "SaveBlock2 sector (ID 0) not found"]_vars

\* C8 witness: save block 2 was returned from a map that holds other ids as well,
\* its sector lying at a non-zero physical index
C8_Witness ==
    /\ pc = "sb2"
    /\ sector_map[0] > 0
    /\ Cardinality(DOMAIN sector_map) = 3
    /\ saveblock2_data.len = SECTOR_DATA_SIZE

-----------------------------------------------------------------------------
(* Specification SpecChecksum: calculate_sector_checksum on data regions *)

\* number of words of the data region that the inputs populate
MaxWords == 3

\* word values tried, as the four bytes b0..b3 of a little-endian word:
\* 1, 0xFFFF, 0x10000, 0x80000000, 0xFFFFFFFF, 0x7FFF8001, and 0 (left blank)
WordChoices ==
    { <<0, 0, 0, 0>>, <<1, 0, 0, 0>>, <<255, 255, 0, 0>>, <<0, 0, 1, 0>>,
      <<0, 0, 0, 128>>, <<255, 255, 255, 255>>, <<1, 128, 255, 127>> }

\* the k-th populated word: the first words of the region, and its last word
WordIndex(k) == IF k = MaxWords THEN (SECTOR_DATA_SIZE \div 4) - 1 ELSE k - 1

\* bytes of length n holding word ws[k] at word index WordIndex(k)
DataOfWords(n, ws) ==
    LET cells == {<<k, j>> \in (1..MaxWords) \X (0..3) : ws[k][j + 1] # 0}
    IN  [len |-> n,
         nz  |-> [o \in {4 * WordIndex(c[1]) + c[2] : c \in cells} |->
                    LET k == CHOOSE k \in 1..MaxWords :
                                 o \div 4 = WordIndex(k)
                    IN  ws[k][(o % 4) + 1]]]

InitChecksum ==
    /\ disk = None
    /\ Constructed(0)
    /\ op = "input"
    /\ arg \in {DataOfWords(SECTOR_DATA_SIZE, ws) : ws \in [1..MaxWords -> WordChoices]}
    /\ ret = 0

CallChecksum ==
    /\ op = "input"
    /\ op' = "calculate_sector_checksum"
    /\ ret' = calculate_sector_checksum(arg)
    /\ UNCHANGED <<arg, pipeVars>>

SpecChecksum == InitChecksum /\ [][CallChecksum]_vars

\* the sum of the region's little-endian words reduced modulo 2^32 after every
\* addition (32-bit wraparound)
RECURSIVE WrapSum32(_, _)
WrapSum32(d, W) ==
    IF W = {} THEN Int0
    ELSE LET w == CHOOSE x \in W : TRUE
             s == IntAdd(U32At(d, 4 * w), WrapSum32(d, W \ {w}))
         IN  [hi |-> s.hi % 65536, lo |-> s.lo]

\* C2: for a data region of exactly SECTOR_DATA_SIZE bytes calculate_sector_checksum
\* returns ((s >> 16) + (s & 0xFFFF)) & 0xFFFF, s being the 32-bit wrapped word sum
C2_ChecksumIsFoldOfWrappedSum ==
    (op = "calculate_sector_checksum" /\ arg.len = SECTOR_DATA_SIZE) =>
        LET s == WrapSum32(arg, {i \div 4 : i \in DOMAIN arg.nz})
        IN  ret = ((s.hi + s.lo) % 65536)

\* C2 witness: a checksum was computed over a region whose word sum exceeds 2^32 - 1
C2_Witness ==
    /\ op = "calculate_sector_checksum"
    /\ arg.len = SECTOR_DATA_SIZE
    /\ WordSum(arg).hi >= 65536
    /\ ret # 0

-----------------------------------------------------------------------------
(* Specification SpecSector: get_sector_info on a loaded file *)

\* files with one sector written, of every kind, whole, cut short right before
\* and right after the last byte of that sector's footer, and cut to less than one
\* sector; and the empty file
SectorFiles ==
    {Zeros(0)} \cup
    {Slice(FileOf(low, [c \in 1 .. 3 |-> IF c = cell THEN s
                                        ELSE [kind |-> "blank", id |-> 0, counter |-> 0]]),
           0, n) :
        low \in BOOLEAN, cell \in 1 .. 3,
        s \in [kind : SectorKinds, id : SectorIds, counter : 1 .. MaxCounter],
        n \in {32 * SECTOR_SIZE, 18 * SECTOR_SIZE, 18 * SECTOR_SIZE - 1, 100}}

InitSector ==
    /\ disk \in SectorFiles
    /\ save_data = disk
    /\ forced_slot = 0
    /\ active_slot_start = 0
    /\ sector_map = EmptyFn
    /\ missing_critical = {}
    /\ saveblock1_data = None
    /\ saveblock2_data = None
    /\ player_name = None
    /\ party_pokemon = <<>>
    /\ play_time = <<>>
    /\ pc = "loaded"
    /\ err = NoError
    /\ op = "input"
    /\ arg = 0
    /\ ret = 0

CallSectorInfo ==
    /\ op = "input"
    /\ \E sector_index \in 0 .. 32 :
          /\ arg' = sector_index
          /\ ret' = IF NotLoaded(save_data) THEN SaveDataNotLoaded
                    ELSE get_sector_info(save_data, sector_index)
    /\ op' = "get_sector_info"
    /\ UNCHANGED pipeVars

SpecSector == InitSector /\ [][CallSectorInfo]_vars

\* C3: for a sector whose footer lies inside the buffer, get_sector_info reports valid
\* exactly when the signature is 0x08012025 and the recomputed checksum equals the
\* stored one; with another signature the sector is invalid and the footer's id,
\* checksum and counter are still returned
C3_ValidIffSignatureAndChecksum ==
    (op = "get_sector_info" /\ FooterInside(save_data, arg)) =>
        /\ ret.valid =
              (/\ FooterSignature(save_data, arg) = EMERALD_SIGNATURE
               /\ calculate_sector_checksum(DataRegion(save_data, arg))
                     = FooterChecksum(save_data, arg))
        /\ FooterSignature(save_data, arg) # EMERALD_SIGNATURE =>
              /\ ~ret.valid
              /\ ret.id = FooterId(save_data, arg)
              /\ ret.checksum = FooterChecksum(save_data, arg)
              /\ ret.counter = FooterCounter(save_data, arg)

\* C3 witness: the info of a sector whose checksum is right and whose signature is
\* wrong was returned: invalid, with its id and counter
C3_Witness ==
    /\ op = "get_sector_info" /\ FooterInside(save_data, arg)
    /\ FooterSignature(save_data, arg) # EMERALD_SIGNATURE
    /\ calculate_sector_checksum(DataRegion(save_data, arg)) = FooterChecksum(save_data, arg)
    /\ ~ret.valid /\ ret.id = 5 /\ ret.counter = IntOf(MaxCounter)

-----------------------------------------------------------------------------
(* Specification SpecParty: parse_party_pokemon on logical blocks *)

\* species ids tried in each of the six party slots
SpeciesChoices == {0, 7, 256}

\* lengths of the blocks tried: the full block, one cut inside the third slot, one
\* shorter than PARTY_START_OFFSET
PartyBlockLens ==
    {SAVEBLOCK1_SIZE, PARTY_START_OFFSET + 2 * PARTY_POKEMON_SIZE + 50, 100}

PartyBlock(n, species) ==
    Slice(BytesOf(SAVEBLOCK1_SIZE,
                  UNION {RecordPairs(PARTY_START_OFFSET + (k - 1) * PARTY_POKEMON_SIZE,
                                     species[k], k) : k \in 1 .. MAX_PARTY_SIZE}),
          0, n)

InitParty ==
    /\ disk = None
    /\ Constructed(0)
    /\ op = "input"
    /\ arg \in {PartyBlock(n, species) :
                   n \in PartyBlockLens, species \in [1 .. MAX_PARTY_SIZE -> SpeciesChoices]}
    /\ ret = <<>>

CallParseParty ==
    /\ op = "input"
    /\ op' = "parse_party_pokemon"
    /\ ret' = parse_party_pokemon(arg)
    /\ UNCHANGED <<arg, pipeVars>>

SpecParty == InitParty /\ [][CallParseParty]_vars

SlotOffset(i) == PARTY_START_OFFSET + i * PARTY_POKEMON_SIZE
SlotSpecies(block, i) == U16At(block, SlotOffset(i) + 40)

\* C9: on a block that holds the six party slots, parse_party_pokemon returns the
\* longest prefix of the slots 0..5 whose species id is not 0: k records, record i
\* decoded from the window at PARTY_START_OFFSET + i * PARTY_POKEMON_SIZE, and k = 6
\* or slot k has species id 0
C9_PartyIsLongestActivePrefix ==
    (op = "parse_party_pokemon" /\ arg.len >= SlotOffset(MAX_PARTY_SIZE)) =>
        LET k == Len(ret)
        IN  /\ k <= MAX_PARTY_SIZE
            /\ \A i \in 0 .. k - 1 :
                  /\ SlotSpecies(arg, i) # 0
                  /\ ret[i + 1].speciesId = SlotSpecies(arg, i)
                  /\ ret[i + 1].raw_bytes
                        = Slice(arg, SlotOffset(i), SlotOffset(i) + PARTY_POKEMON_SIZE)
            /\ k = MAX_PARTY_SIZE \/ SlotSpecies(arg, k) = 0

\* C9 witness: active, active, empty, active: exactly two records were returned
C9_Witness ==
    /\ op = "parse_party_pokemon" /\ arg.len = SAVEBLOCK1_SIZE
    /\ SlotSpecies(arg, 0) = 7 /\ SlotSpecies(arg, 1) = 256
    /\ SlotSpecies(arg, 2) = 0 /\ SlotSpecies(arg, 3) # 0
    /\ Len(ret) = 2

-----------------------------------------------------------------------------
(* Specification SpecIvs: PokemonData.ivs on decoded records *)

\* individual values tried in each of the six groups
IvChoices == {0, 10, 21, 31}

\* sum(v_i << (5 * i)) + (top << 30)
PackIvs(v, top) ==
    LET low30 == v[1] + 32 * v[2] + 1024 * v[3] + 32768 * v[4]
                 + 1048576 * v[5] + 33554432 * v[6]
    IN  [hi |-> (low30 \div 65536) + 16384 * top, lo |-> low30 % 65536]

InitIvs ==
    /\ disk = None
    /\ Constructed(0)
    /\ op = "input"
    /\ \E v \in [1 .. 6 -> IvChoices], top \in 0 .. 3 :
          arg = [v |-> v, top |-> top,
                 pokemon |-> PokemonDataOf(BytesOf(PARTY_POKEMON_SIZE,
                                 LE16(40, 7) \cup LE32(80, PackIvs(v, top))))]
    /\ ret = <<>>

CallIvs ==
    /\ op = "input"
    /\ op' = "ivs"
    /\ ret' = Ivs(arg.pokemon.ivData)
    /\ UNCHANGED <<arg, pipeVars>>

SpecIvs == InitIvs /\ [][CallIvs]_vars

\* C10: packing six values of 0..31 as sum(v_i << (5 * i)) into ivData and reading ivs
\* gives back the six values, each in 0..31, whatever bits 30 and 31 of ivData hold
C10_IvsRoundTrip ==
    op = "ivs" =>
        /\ ret = arg.v
        /\ \A i \in 1 .. 6 : ret[i] \in 0 .. 31

\* C10 witness: values read back from a field whose bits 30 and 31 are both set
C10_Witness ==
    /\ op = "ivs" /\ arg.top = 3
    /\ arg.pokemon.ivData.hi >= 49152
    /\ ret = <<31, 0, 21, 31, 10, 21>>

-----------------------------------------------------------------------------
(* Claims on get_sector_info under SpecSector *)

\* what a call returned is an exception, not a SectorInfo
Raised(r) == "kind" \in DOMAIN r

\* C11: for a loaded buffer of any length, the empty one included, and every sector
\* index, get_sector_info raises nothing, and returns valid = false when the footer
\* range of the sector exceeds the buffer
C11_SectorInfoNeverRaises ==
    op = "get_sector_info" =>
        /\ ~Raised(ret)
        /\ ~FooterInside(save_data, arg) => ~ret.valid

-----------------------------------------------------------------------------
(* Claims on the forced-slot mode under Spec *)

\* C12: with a forced slot, determine_active_slot sets the start from the label alone
\* (1 -> 0, 2 -> 14) for every file content, the empty file included, and raises
\* nothing: the counters and validity of the sectors play no part
C12_ForcedSlotFromLabelAlone ==
    [][(pc = "loaded" /\ forced_slot # 0) =>
          /\ pc' = "slot" /\ err' = NoError
          /\ forced_slot = 1 => active_slot_start' = 0
          /\ forced_slot = 2 => active_slot_start' = 14]_vars

\* C12 witness: slot 1 was forced on a file whose only valid sectors lie in slot 2
\* outside slot 1, which the counter comparison would have selected
C12_Witness ==
    /\ pc = "slot" /\ forced_slot = 1 /\ active_slot_start = 0
    /\ ValidIn(save_data, Slot1Range) = {}
    /\ ValidIn(save_data, Slot2Range) # {}
    /\ AutoSlotStart(save_data) = 14

\* the forced slot's range and the other slot's range, as build_sector_map scans them
PrimaryRegion == IF forced_slot = 1 THEN Slot1Range ELSE Slot2Range
OtherRegion == IF forced_slot = 1 THEN Slot2Range ELSE Slot1Range

\* the valid sectors of R whose footer carries id
Carriers(data, R, id) ==
    {p \in R : FooterInside(data, p) /\ FooterId(data, p) = id /\ SectorIsValid(data, p)}

\* C13: in forced-slot mode, after build_sector_map, a critical id (0..4) with a valid
\* sector in the primary region is mapped into the primary region; one without is
\* mapped to a valid sector of the other region carrying it whenever there is one; an
\* id >= 5 without a valid sector in the primary region is not mapped at all
C13_ForcedRecoveryOfCriticalIds ==
    (pc = "mapped" /\ forced_slot # 0) =>
        \A id \in 0 .. 5 :
            IF Carriers(save_data, PrimaryRegion, id) # {}
            THEN id \in DOMAIN sector_map
                 /\ sector_map[id] \in Carriers(save_data, PrimaryRegion, id)
            ELSE IF id <= 4 /\ Carriers(save_data, OtherRegion, id) # {}
            THEN id \in DOMAIN sector_map
                 /\ sector_map[id] \in Carriers(save_data, OtherRegion, id)
            ELSE id \notin DOMAIN sector_map

\* C13 witness: slot 2 was forced; a critical id missing from it was taken from slot 1,
\* and another id kept its sector of slot 2
C13_Witness ==
    /\ pc = "mapped" /\ forced_slot = 2
    /\ \E c \in 0 .. 4 : c \in DOMAIN sector_map /\ sector_map[c] \notin PrimaryRegion
    /\ \E d \in DOMAIN sector_map : sector_map[d] \in PrimaryRegion \ OtherRegion

-----------------------------------------------------------------------------
(* Claims on whole parses under Spec *)

\* a file whose only valid sector lies in slot 1's range, carries id 0 and counter 10,
\* slot 2's range holding no valid sector, and whose bytes outside that sector's
\* footer are all zero
IsSynthetic(data) ==
    \E p \in Slot1Range :
        /\ \A o \in DOMAIN data.nz :
              o >= FooterOffset(p) /\ o < FooterOffset(p) + SECTOR_FOOTER_SIZE
        /\ FooterId(data, p) = 0
        /\ FooterCounter(data, p) = IntOf(10)
        /\ ValidIn(data, 0 .. 31) = {p}
        /\ ValidIn(data, Slot2Range) = {}

\* C14 as stated: parsing such a file in auto-detect mode raises nothing; it selects
\* slot 1 (start 0) and decodes a party of zero records
C14_SyntheticFileParses ==
    (IsSynthetic(disk) /\ forced_slot = 0) =>
        /\ pc # "failed"
        /\ pc \in {"slot", "mapped", "sb1", "sb2", "name", "party", "done"} =>
              active_slot_start = 0
        /\ party_pokemon = <<>>

\* C14 as amended: parsing such a file in auto-detect mode selects slot 1 (start 0)
\* and maps id 0 alone; the parse then fails with "No SaveBlock1 sectors found" before
\* a block is returned or a record decoded; the party decoder applied to an all-zero
\* block of SAVEBLOCK1_SIZE bytes returns zero records
C14_SyntheticFileSelectsAThenFails ==
    (IsSynthetic(disk) /\ forced_slot = 0) =>
        /\ pc \in {"new", "loaded", "slot", "mapped", "failed"}
        /\ pc \in {"slot", "mapped", "failed"} => active_slot_start = 0
        /\ pc \in {"mapped", "failed"} => DOMAIN sector_map = {0}
        /\ pc = "failed" => err = ValueError("No SaveBlock1 sectors found")
        /\ saveblock1_data = None /\ party_pokemon = <<>>
        /\ parse_party_pokemon(Zeros(SAVEBLOCK1_SIZE)) = <<>>

\* C14 witness: the parse of such a file has selected slot 1 and stopped at
\* extract_saveblock1
C14_Witness ==
    /\ IsSynthetic(disk) /\ forced_slot = 0
    /\ pc = "failed" /\ active_slot_start = 0 /\ 0 \in DOMAIN sector_map

\* the range of the slot that determine_active_slot selected
ActiveRegion == IF active_slot_start = 0 THEN Slot1Range ELSE Slot2Range

\* C15: in auto-detect mode, after determine_active_slot and build_sector_map, every
\* physical index of sector_map lies in the region selected as active, except for a
\* critical id (0..4) that the active region does not hold and that was taken from the
\* other region; an id >= 5 is never mapped to a sector outside the active region
C15_MapInsideActiveRegion ==
    (pc = "mapped" /\ forced_slot = 0) =>
        \A id \in DOMAIN sector_map :
            \/ sector_map[id] \in ActiveRegion
            \/ id <= 4 /\ Carriers(save_data, ActiveRegion, id) = {}

\* the valid sector p raises the maximum valid counter of the range R: without it the
\* maximum is lower
RaisesMax(data, R, p) ==
    p \in R /\ IntGt(MaxValidCounter(data, R), MaxValidCounter(data, R \ {p}))

\* C16: the two ranges whose maxima determine_active_slot compares share no physical
\* sector, so that no valid sector raises the maximum of both at once
C16_SlotRegionsDisjoint ==
    (pc = "slot" /\ forced_slot = 0) =>
        \A p \in ValidIn(save_data, 0 .. 31) :
            ~(RaisesMax(save_data, Slot1Range, p) /\ RaisesMax(save_data, Slot2Range, p))

\* the file holds a valid sector carrying id 0 and one carrying an id of 1..4
HasRequiredSectors(data) ==
    /\ Carriers(data, 0 .. 31, 0) # {}
    /\ \E id \in 1 .. 4 : Carriers(data, 0 .. 31, id) # {}

\* C17: for a loaded, non-empty file parse_save_file fails only with "No SaveBlock1
\* sectors found", no id of 1..4 being mapped, or with "SaveBlock2 sector (ID 0) not
\* found", id 0 not being mapped; it never fails when id 0 and an id of 1..4 have a
\* valid sector, whatever the other sectors hold
C17_OnlyBlockAbsenceFails ==
    (pc = "failed" /\ ~NotLoaded(save_data)) =>
        /\ \/ /\ err = ValueError("No SaveBlock1 sectors found")
              /\ \A id \in 1 .. 4 : id \notin DOMAIN sector_map
           \/ /\ err = ValueError("SaveBlock2 sector (ID 0) not found")
              /\ 0 \notin DOMAIN sector_map
        /\ ~HasRequiredSectors(save_data)

\* C17 witness: a parse ran to its end on a file that holds an invalid sector with a
\* matching signature beside valid sectors for id 0 and an id of 1..4
C17_Witness ==
    /\ pc = "done" /\ err = NoError
    /\ HasRequiredSectors(save_data)
    /\ \E q \in (0 .. 31) \ ValidIn(save_data, 0 .. 31) :
          FooterSignature(save_data, q) = EMERALD_SIGNATURE

\* the four failures of the decode pipeline, as the code raises them
PipelineErrors ==
    {SaveDataNotLoaded, NoSaveBlock1Sectors, SaveBlock2NotFound, SaveBlock2TooSmall}

\* C18: the failures "save data not loaded", "multi-sector block not found",
\* "single-sector block not found" and "block data too small" have different kinds:
\* the kind of the error a failed parse reports is the kind of no other of them
C18_ErrorsDistinctByKind ==
    (pc = "failed" /\ err \in PipelineErrors) =>
        \A e \in PipelineErrors : e # err => e.kind # err.kind

\* the position of parse_save_file: the number of its calls that have returned
StageRank(p) ==
    CASE p = "new" -> 0 [] p = "loaded" -> 1 [] p = "slot" -> 2 [] p = "mapped" -> 3
      [] p = "sb1" -> 4 [] p = "sb2" -> 5 [] p = "name" -> 6 [] p = "party" -> 7
      [] p = "done" -> 8 [] OTHER -> -1

\* C19: the stages of parse_save_file run in the order load, slot selection, map
\* building, block reassembly, record decoding: every step either completes the next
\* stage in that order or fails, each stage writes its result only in its turn, and
\* after a failure or the return no further step is taken
C19_StagesInOrder ==
    [][/\ pc \notin {"failed", "done"}
       /\ pc' = "failed" \/ StageRank(pc') = StageRank(pc) + 1
       /\ save_data' # save_data => pc = "new"
       /\ active_slot_start' # active_slot_start => pc = "loaded"
       /\ sector_map' # sector_map => pc = "slot"
       /\ saveblock1_data' # saveblock1_data => pc = "mapped"
       /\ saveblock2_data' # saveblock2_data => pc = "sb1"
       /\ (player_name' # player_name \/ party_pokemon' # party_pokemon
             \/ play_time' # play_time) => pc \in {"sb2", "name", "party"}
       /\ pc' = "failed" => play_time' = <<>>]_vars

\* C19 witness: block reassembly failed at save block 2 after save block 1 had been
\* returned, and no record was decoded
C19_Witness ==
    /\ pc = "failed" /\ err = SaveBlock2NotFound
    /\ sector_map # EmptyFn /\ saveblock1_data # None /\ saveblock2_data = None
    /\ player_name = None /\ party_pokemon = <<>> /\ play_time = <<>>

-----------------------------------------------------------------------------
(* Specification SpecCalls: the methods of a parser, called in any order after
   load_save_file. saveblock1_data, saveblock2_data, player_name, party_pokemon and
   play_time hold what the caller got from the last call that returned them; err
   holds the last exception raised. *)

\* the files loaded: one with valid sectors for the ids 0 and 1 and a bad checksum for
\* id 4, one without a sector for id 0, an all-zero one, the empty one; and no file
CallFiles ==
    {FileOf(TRUE, <<[kind |-> "ok", id |-> 0, counter |-> 1],
                    [kind |-> "ok", id |-> 1, counter |-> MaxCounter],
                    [kind |-> "badsum", id |-> 4, counter |-> MaxCounter + 1]>>),
     FileOf(TRUE, <<[kind |-> "ok", id |-> 4, counter |-> 1],
                    [kind |-> "blank", id |-> 0, counter |-> 0],
                    [kind |-> "ok", id |-> 5, counter |-> 1]>>),
     Zeros(32 * SECTOR_SIZE), Zeros(0), None}

InitCalls ==
    /\ disk \in CallFiles
    /\ \E forced \in {0, 1, 2} : Constructed(forced)
    /\ op = "methods"
    /\ arg = 0
    /\ ret = 0

\* what a method call leaves alone besides its own result
CallFrame == UNCHANGED <<disk, save_data, forced_slot, pc, op>>

MethodGetSectorInfo ==
    /\ pc = "loaded"
    /\ \E sector_index \in {0, 14, 32} :
          /\ arg' = sector_index
          /\ IF NotLoaded(save_data)
             THEN err' = SaveDataNotLoaded /\ UNCHANGED ret
             ELSE ret' = get_sector_info(save_data, sector_index) /\ UNCHANGED err
    /\ CallFrame
    /\ UNCHANGED <<active_slot_start, sector_map, missing_critical, saveblock1_data,
                   saveblock2_data, player_name, party_pokemon, play_time>>

MethodDetermineActiveSlot ==
    /\ pc = "loaded"
    /\ IF forced_slot # 0
       THEN active_slot_start' = ForcedSlotStart(forced_slot) /\ UNCHANGED err
       ELSE IF NotLoaded(save_data)
       THEN err' = SaveDataNotLoaded /\ UNCHANGED active_slot_start
       ELSE active_slot_start' = AutoSlotStart(save_data) /\ UNCHANGED err
    /\ CallFrame
    /\ UNCHANGED <<sector_map, missing_critical, saveblock1_data, saveblock2_data,
                   player_name, party_pokemon, play_time, arg, ret>>

MethodBuildSectorMap ==
    /\ pc = "loaded"
    /\ IF NotLoaded(save_data)
       THEN /\ err' = SaveDataNotLoaded
            /\ sector_map' = EmptyFn
            /\ UNCHANGED missing_critical
       ELSE LET built == IF forced_slot # 0 THEN BuildForced(save_data, forced_slot)
                         ELSE BuildAuto(save_data)
            IN  /\ sector_map' = built.map
                /\ missing_critical' = built.missing
                /\ UNCHANGED err
    /\ CallFrame
    /\ UNCHANGED <<active_slot_start, saveblock1_data, saveblock2_data, player_name,
                   party_pokemon, play_time, arg, ret>>

\* a reassembly that writes the chunks into the source buffer
MethodExtractSaveblock1InPlace ==
    /\ pc = "loaded"
    /\ ~NotLoaded(save_data)
    /\ save_data' = CopyChunks(save_data, sector_map, 1, save_data)
    /\ saveblock1_data' = Slice(save_data', 0, SAVEBLOCK1_SIZE)
    /\ UNCHANGED <<disk, forced_slot, pc, op, err, active_slot_start, sector_map,
                   missing_critical, saveblock2_data, player_name, party_pokemon,
                   play_time, arg, ret>>

MethodExtractSaveblock1 ==
    /\ pc = "loaded"
    /\ IF NotLoaded(save_data)
       THEN err' = SaveDataNotLoaded /\ UNCHANGED saveblock1_data
       ELSE IF Saveblock1Sectors(sector_map) = {}
       THEN err' = NoSaveBlock1Sectors /\ UNCHANGED saveblock1_data
       ELSE saveblock1_data' = Saveblock1Of(save_data, sector_map) /\ UNCHANGED err
    /\ CallFrame
    /\ UNCHANGED <<active_slot_start, sector_map, missing_critical, saveblock2_data,
                   player_name, party_pokemon, play_time, arg, ret>>

MethodExtractSaveblock2 ==
    /\ pc = "loaded"
    /\ IF NotLoaded(save_data)
       THEN err' = SaveDataNotLoaded /\ UNCHANGED saveblock2_data
       ELSE IF 0 \notin DOMAIN sector_map
       THEN err' = SaveBlock2NotFound /\ UNCHANGED saveblock2_data
       ELSE saveblock2_data' = Saveblock2Of(save_data, sector_map) /\ UNCHANGED err
    /\ CallFrame
    /\ UNCHANGED <<active_slot_start, sector_map, missing_critical, saveblock1_data,
                   player_name, party_pokemon, play_time, arg, ret>>

\* parse_party_pokemon(saveblock1_data) on a block extract_saveblock1 returned
MethodParsePartyPokemon ==
    /\ pc = "loaded"
    /\ saveblock1_data # None
    /\ party_pokemon' = parse_party_pokemon(saveblock1_data)
    /\ CallFrame
    /\ UNCHANGED <<active_slot_start, sector_map, missing_critical, saveblock1_data,
                   saveblock2_data, player_name, play_time, err, arg, ret>>

\* parse_player_name(saveblock2_data) on a block extract_saveblock2 returned
MethodParsePlayerName ==
    /\ pc = "loaded"
    /\ saveblock2_data # None
    /\ IF saveblock2_data.len < SizeofSaveBlock2
       THEN err' = SaveBlock2TooSmall /\ UNCHANGED player_name
       ELSE player_name' = PlayerNameOf(saveblock2_data) /\ UNCHANGED err
    /\ CallFrame
    /\ UNCHANGED <<active_slot_start, sector_map, missing_critical, saveblock1_data,
                   saveblock2_data, party_pokemon, play_time, arg, ret>>

\* parse_play_time(saveblock2_data) on a block extract_saveblock2 returned
MethodParsePlayTime ==
    /\ pc = "loaded"
    /\ saveblock2_data # None
    /\ IF saveblock2_data.len < SizeofSaveBlock2
       THEN err' = SaveBlock2TooSmall /\ UNCHANGED play_time
       ELSE play_time' = PlayTimeOf(saveblock2_data) /\ UNCHANGED err
    /\ CallFrame
    /\ UNCHANGED <<active_slot_start, sector_map, missing_critical, saveblock1_data,
                   saveblock2_data, player_name, party_pokemon, arg, ret>>

NextCalls ==
    \/ load_save_file
    \/ MethodGetSectorInfo
    \/ MethodDetermineActiveSlot
    \/ MethodBuildSectorMap
    \/ MethodExtractSaveblock1
    \/ MethodExtractSaveblock2
    \/ MethodParsePartyPokemon
    \/ MethodParsePlayerName
    \/ MethodParsePlayTime

SpecCalls == InitCalls /\ [][NextCalls]_vars

\* C20: after load_save_file no call of get_sector_info, determine_active_slot,
\* build_sector_map, extract_saveblock1, extract_saveblock2, parse_party_pokemon,
\* parse_player_name or parse_play_time, in any order, changes save_data: it stays
\* equal to the bytes read, also when the call raises
C20_SourceBufferUnchanged ==
    [][pc = "loaded" => (save_data' = save_data /\ save_data' = disk)]_vars

\* C20 witness: after a call that raised and calls that returned a sector info, both
\* blocks and a party, the buffer still holds the bytes read
C20_Witness ==
    /\ pc = "loaded" /\ save_data = disk
    /\ err = NoSaveBlock1Sectors
    /\ saveblock1_data # None /\ saveblock2_data # None /\ party_pokemon # <<>>
    /\ play_time # <<>> /\ arg = 14 /\ ret.valid

-----------------------------------------------------------------------------
(* Specification SpecTwo: two PokemonSaveParser instances, each running
   parse_save_file on its own file, their calls interleaved in any order. The first
   instance is held by the variables of Spec; the second is the record arg, with
   one field per variable of an instance. *)

\* the attributes and locals of an instance after __init__
NewParser(file, forced) ==
    [disk |-> file, save_data |-> None, forced_slot |-> forced,
     active_slot_start |-> 0, sector_map |-> EmptyFn, missing_critical |-> {},
     saveblock1_data |-> None, saveblock2_data |-> None, player_name |-> None,
     party_pokemon |-> <<>>, play_time |-> <<>>, pc |-> "new", err |-> NoError]

\* an exception leaves parse_save_file of the instance s
RaiseIn(s, e) == [s EXCEPT !.pc = "failed", !.err = e]

\* the next call of parse_save_file on the instance s, as a function of s alone
StepOf(s) ==
    CASE s.pc = "new" ->
            IF s.disk = None THEN RaiseIn(s, SaveFileNotFound)
            ELSE [s EXCEPT !.save_data = s.disk, !.pc = "loaded"]
      [] s.pc = "loaded" ->
            IF s.forced_slot # 0
            THEN [s EXCEPT !.active_slot_start = ForcedSlotStart(s.forced_slot),
                           !.pc = "slot"]
            ELSE IF NotLoaded(s.save_data) THEN RaiseIn(s, SaveDataNotLoaded)
            ELSE [s EXCEPT !.active_slot_start = AutoSlotStart(s.save_data),
                           !.pc = "slot"]
      [] s.pc = "slot" ->
            IF NotLoaded(s.save_data)
            THEN [RaiseIn(s, SaveDataNotLoaded) EXCEPT !.sector_map = EmptyFn]
            ELSE LET built == IF s.forced_slot # 0
                              THEN BuildForced(s.save_data, s.forced_slot)
                              ELSE BuildAuto(s.save_data)
                 IN  [s EXCEPT !.sector_map = built.map,
                               !.missing_critical = built.missing, !.pc = "mapped"]
      [] s.pc = "mapped" ->
            IF NotLoaded(s.save_data) THEN RaiseIn(s, SaveDataNotLoaded)
            ELSE IF Saveblock1Sectors(s.sector_map) = {}
            THEN RaiseIn(s, NoSaveBlock1Sectors)
            ELSE [s EXCEPT !.saveblock1_data = Saveblock1Of(s.save_data, s.sector_map),
                           !.pc = "sb1"]
      [] s.pc = "sb1" ->
            IF NotLoaded(s.save_data) THEN RaiseIn(s, SaveDataNotLoaded)
            ELSE IF 0 \notin DOMAIN s.sector_map THEN RaiseIn(s, SaveBlock2NotFound)
            ELSE [s EXCEPT !.saveblock2_data = Saveblock2Of(s.save_data, s.sector_map),
                           !.pc = "sb2"]
      [] s.pc = "sb2" ->
            IF s.saveblock2_data.len < SizeofSaveBlock2
            THEN RaiseIn(s, SaveBlock2TooSmall)
            ELSE [s EXCEPT !.player_name = PlayerNameOf(s.saveblock2_data),
                           !.pc = "name"]
      [] s.pc = "name" ->
            [s EXCEPT !.party_pokemon = parse_party_pokemon(s.saveblock1_data),
                      !.pc = "party"]
      [] s.pc = "party" ->
            IF s.saveblock2_data.len < SizeofSaveBlock2
            THEN RaiseIn(s, SaveBlock2TooSmall)
            ELSE [s EXCEPT !.play_time = PlayTimeOf(s.saveblock2_data), !.pc = "done"]
      [] OTHER -> s

\* parse_save_file has returned or raised
Ended(p) == p \in {"done", "failed"}

\* parse_save_file run to its end on the instance s, nothing else running
RECURSIVE RunAlone(_)
RunAlone(s) == IF Ended(s.pc) THEN s ELSE RunAlone(StepOf(s))

\* the files of the two instances: one whose slot 2 wins, one whose slot 1 wins and
\* whose first sector of save block 1 carries other party data, one without a sector
\* for id 0
TwoFiles ==
    {FileOf(TRUE, <<[kind |-> "ok", id |-> 0, counter |-> 1],
                    [kind |-> "ok", id |-> 1, counter |-> MaxCounter],
                    [kind |-> "badsum", id |-> 4, counter |-> MaxCounter + 1]>>),
     FileOf(FALSE, <<[kind |-> "ok", id |-> 1, counter |-> MaxCounter],
                     [kind |-> "blank", id |-> 0, counter |-> 0],
                     [kind |-> "ok", id |-> 0, counter |-> 1]>>),
     FileOf(TRUE, <<[kind |-> "ok", id |-> 4, counter |-> 1],
                    [kind |-> "blank", id |-> 0, counter |-> 0],
                    [kind |-> "ok", id |-> 5, counter |-> 1]>>)}

InitTwo ==
    /\ disk \in TwoFiles
    /\ \E forced \in {0, 1} : Constructed(forced)
    /\ op = "two parsers"
    /\ arg \in {NewParser(file, forced) : file \in TwoFiles, forced \in {0, 1}}
    /\ ret = 0

\* a call of the second instance that stores its sector map in an attribute of the
\* class, shared by the instances
SecondStepSharedMap ==
    /\ ~Ended(arg.pc)
    /\ arg' = StepOf(arg)
    /\ sector_map' = arg'.sector_map
    /\ UNCHANGED <<disk, save_data, forced_slot, active_slot_start, missing_critical,
                   saveblock1_data, saveblock2_data, player_name, party_pokemon,
                   play_time, pc, err, op, ret>>

\* the next call of parse_save_file on the second instance
SecondStep ==
    /\ ~Ended(arg.pc)
    /\ arg' = StepOf(arg)
    /\ UNCHANGED <<pipeVars, op, ret>>

NextTwo == Next \/ SecondStep

SpecTwo == InitTwo /\ [][NextTwo]_vars

\* the first instance, as a record
FirstParser ==
    [disk |-> disk, save_data |-> save_data, forced_slot |-> forced_slot,
     active_slot_start |-> active_slot_start, sector_map |-> sector_map,
     missing_critical |-> missing_critical, saveblock1_data |-> saveblock1_data,
     saveblock2_data |-> saveblock2_data, player_name |-> player_name,
     party_pokemon |-> party_pokemon, play_time |-> play_time, pc |-> pc, err |-> err]

-----------------------------------------------------------------------------
(* Specification SpecAlias: a caller runs the pipeline up to extract_saveblock1,
   then parses the party from the block it got, overwrites that block and extracts
   again, in any order. saveblock1_data is the caller's bytearray with its current
   content; ret holds the records returned by the last parse_party_pokemon, each
   with the storage of its structure and of its raw_bytes; party_pokemon holds what
   those records read when they were returned; arg holds the content of the block
   when it was first returned and the result of the last later extraction. *)

\* a mutable buffer slice that shares the storage of the block it was cut from
SliceView(buf, start, stop) == [own |-> FALSE, off |-> start, bytes |-> Zeros(0)]

\* a slice of a bytes or bytearray object: a new object with its own storage
SliceCopy(buf, start, stop) ==
    [own |-> TRUE, off |-> start, bytes |-> Slice(buf, start, stop)]

\* the bytes an object holds now, block being the current content of the buffer it
\* may share
Read(obj, block) ==
    IF obj.own THEN obj.bytes
    ELSE Slice(block, obj.off, obj.off + PARTY_POKEMON_SIZE)

\* the records parse_party_pokemon returns, as objects: the structure filled by
\* from_buffer_copy and the raw_bytes attribute
PartyObjects(saveblock1) ==
    [i \in 1 .. Len(parse_party_pokemon(saveblock1)) |->
        LET pokemon_data == SliceCopy(saveblock1, SlotOffset(i - 1),
                                      SlotOffset(i - 1) + PARTY_POKEMON_SIZE)
        IN  [struct |-> SliceCopy(Read(pokemon_data, saveblock1), 0,
                                  PARTY_POKEMON_SIZE),
             raw_bytes |-> pokemon_data]]

\* the fields and raw bytes the records read now
Observed(records, block) ==
    [i \in 1 .. Len(records) |->
        [PokemonDataOf(Read(records[i].struct, block))
            EXCEPT !.raw_bytes = Read(records[i].raw_bytes, block)]]

\* the contents the caller writes over the block
OverwriteBlocks ==
    {Zeros(SAVEBLOCK1_SIZE),
     PartyBlock(SAVEBLOCK1_SIZE, <<7, 256, 7, 0, 0, 0>>)}

InitAlias ==
    /\ disk \in TwoFiles
    /\ \E forced \in {0, 1, 2} : Constructed(forced)
    /\ op = "caller"
    /\ arg = [first |-> None, later |-> None]
    /\ ret = <<>>

\* the first extract_saveblock1 of the caller
AliasExtract ==
    /\ pc = "mapped"
    /\ IF NotLoaded(save_data)
       THEN Raise(SaveDataNotLoaded) /\ UNCHANGED <<saveblock1_data, arg>>
       ELSE IF Saveblock1Sectors(sector_map) = {}
       THEN Raise(NoSaveBlock1Sectors) /\ UNCHANGED <<saveblock1_data, arg>>
       ELSE /\ saveblock1_data' = Saveblock1Of(save_data, sector_map)
            /\ arg' = [first |-> saveblock1_data', later |-> None]
            /\ pc' = "sb1"
            /\ UNCHANGED err
    /\ UNCHANGED <<disk, save_data, forced_slot, active_slot_start, sector_map,
                   missing_critical, saveblock2_data, player_name, party_pokemon,
                   play_time, op, ret>>

\* parse_party_pokemon on the caller's block
AliasParse ==
    /\ pc = "sb1"
    /\ ret' = PartyObjects(saveblock1_data)
    /\ party_pokemon' = Observed(ret', saveblock1_data)
    /\ UNCHANGED <<disk, save_data, forced_slot, active_slot_start, sector_map,
                   missing_critical, saveblock1_data, saveblock2_data, player_name,
                   play_time, pc, err, op, arg>>

\* the caller overwrites the block it holds
AliasOverwrite ==
    /\ pc = "sb1"
    /\ saveblock1_data' \in OverwriteBlocks \ {saveblock1_data}
    /\ UNCHANGED <<disk, save_data, forced_slot, active_slot_start, sector_map,
                   missing_critical, saveblock2_data, player_name, party_pokemon,
                   play_time, pc, err, op, arg, ret>>

\* a later extract_saveblock1 on the same parser
AliasExtractAgain ==
    /\ pc = "sb1"
    /\ arg' = [arg EXCEPT !.later = Saveblock1Of(save_data, sector_map)]
    /\ UNCHANGED <<pipeVars, op, ret>>

NextAlias ==
    \/ load_save_file
    \/ determine_active_slot
    \/ build_sector_map
    \/ AliasExtract
    \/ AliasParse
    \/ AliasOverwrite
    \/ AliasExtractAgain

SpecAlias == InitAlias /\ [][NextAlias]_vars

\* C22: whatever the caller writes over the block, the records returned by
\* parse_party_pokemon keep reading the fields and raw bytes they had when they were
\* returned, save_data keeps the file's content, and a later extract_saveblock1
\* returns what the first one returned
C22_ResultsDoNotAliasSource ==
    pc = "sb1" =>
        /\ save_data = disk
        /\ arg.later # None => arg.later = arg.first
        /\ Observed(ret, saveblock1_data) = party_pokemon

\* C22 witness: two records were returned, the block was overwritten afterwards with
\* other bytes in the window of the first record, and the block was extracted again
C22_Witness ==
    /\ pc = "sb1"
    /\ Len(ret) >= 2
    /\ saveblock1_data # arg.first
    /\ arg.later = arg.first
    /\ Slice(saveblock1_data, SlotOffset(0), SlotOffset(1)) # party_pokemon[1].raw_bytes

-----------------------------------------------------------------------------
\* C23: on any loaded file and in both modes build_sector_map completes without
\* raising, and the missing critical ids it reports are exactly the ids of 0..4
\* absent from the final sector_map; a failure arises only later, in the extraction
\* of a block whose required ids are missing
C23_MapBuildingNeverFails ==
    [][/\ pc = "slot" =>
             /\ pc' = "mapped"
             /\ missing_critical' = {i \in 0 .. 4 : i \notin DOMAIN sector_map'}
       /\ pc = "mapped" /\ pc' = "failed" => Saveblock1Sectors(sector_map) = {}
       /\ pc = "sb1" /\ pc' = "failed" => 0 \notin DOMAIN sector_map]_vars

-----------------------------------------------------------------------------
\* among the valid sectors of R that carry the id and the counter of the sector an id
\* is mapped to, the mapped one has the lowest physical index
FirstOfTied(R) ==
    \A id \in DOMAIN sector_map :
        \A p \in Carriers(save_data, R, id) :
            (/\ sector_map[id] \in R
             /\ FooterCounter(save_data, p) = FooterCounter(save_data, sector_map[id]))
                => sector_map[id] <= p

-----------------------------------------------------------------------------
\* the window of slot i lies fully inside the block
WindowInside(block, i) == SlotOffset(i) + PARTY_POKEMON_SIZE <= block.len

\* C25: on a block of any length parse_party_pokemon raises nothing and returns k
\* records, each decoded from a window that lies fully inside the block, the windows
\* of all the slots before it lying inside too; it stops at slot k because k = 6, or
\* the window of slot k is not fully inside the block, or its species id is 0
C25_NoRecordFromTruncatedWindow ==
    op = "parse_party_pokemon" =>
        LET k == Len(ret)
        IN  /\ err = NoError
            /\ k <= MAX_PARTY_SIZE
            /\ \A i \in 0 .. k - 1 :
                  /\ WindowInside(arg, i)
                  /\ ret[i + 1].raw_bytes.len = PARTY_POKEMON_SIZE
                  /\ ret[i + 1]
                        = PokemonDataOf(Slice(arg, SlotOffset(i),
                                              SlotOffset(i) + PARTY_POKEMON_SIZE))
            /\ \/ k = MAX_PARTY_SIZE
               \/ ~WindowInside(arg, k)
               \/ SlotSpecies(arg, k) = 0

\* C25 witness: a block cut inside the window of slot 2, the three first slots with a
\* species id in the bytes present: exactly two records were returned
C25_Witness ==
    /\ op = "parse_party_pokemon"
    /\ WindowInside(arg, 1) /\ ~WindowInside(arg, 2) /\ arg.len > SlotOffset(2) + 42
    /\ SlotSpecies(arg, 0) # 0 /\ SlotSpecies(arg, 1) # 0 /\ SlotSpecies(arg, 2) # 0
    /\ Len(ret) = 2

-----------------------------------------------------------------------------
\* C26: the six record windows lie inside the first SECTOR_DATA_SIZE bytes of the
\* block, so the party parse_save_file returns is the one decoded from the data region
\* of the sector mapped to id 1 alone, and the empty party when id 1 is not mapped; a
\* parse whose map holds id 0 and an id of 2..4 but not id 1 succeeds with an empty
\* party, whatever the file holds
C26_PartyFromSectorOneAlone ==
    /\ SlotOffset(MAX_PARTY_SIZE) <= SECTOR_DATA_SIZE
    /\ pc \in {"party", "done"} =>
          party_pokemon = IF 1 \in DOMAIN sector_map
                          THEN parse_party_pokemon(DataRegion(save_data, sector_map[1]))
                          ELSE <<>>
    /\ (/\ pc \in {"done", "failed"}
        /\ 1 \notin DOMAIN sector_map
        /\ 0 \in DOMAIN sector_map
        /\ \E id \in 2 .. 4 : id \in DOMAIN sector_map)
          => pc = "done" /\ err = NoError /\ party_pokemon = <<>>

\* C26 witness: a parse returned an empty party from a map that holds the ids 0 and 4
\* but not 1, the data region of the sector of id 4 holding party records at the
\* offsets of the windows
C26_Witness ==
    /\ pc = "done" /\ party_pokemon = <<>>
    /\ {0, 4} \subseteq DOMAIN sector_map /\ 1 \notin DOMAIN sector_map
    /\ parse_party_pokemon(DataRegion(save_data, sector_map[4])) # <<>>

-----------------------------------------------------------------------------
\* C27: whenever extract_saveblock1 has returned a buffer after build_sector_map, on a
\* file of any length, the buffer is SAVEBLOCK1_SIZE = 4 * SECTOR_DATA_SIZE bytes
\* long, every sector in the map being valid, with its footer and its whole data
\* region inside the file
C27_BlockLengthIsFixed ==
    /\ SAVEBLOCK1_SIZE = 4 * SECTOR_DATA_SIZE
    /\ saveblock1_data # None =>
          /\ saveblock1_data.len = SAVEBLOCK1_SIZE
          /\ \A id \in DOMAIN sector_map :
                /\ SectorIsValid(save_data, sector_map[id])
                /\ FooterInside(save_data, sector_map[id])
                /\ DataRegion(save_data, sector_map[id]).len = SECTOR_DATA_SIZE

\* C27 witness: extract_saveblock1 returned a full-length buffer on a file cut inside
\* the footer of sector 17, whose data region is written but which is not mapped
C27_Witness ==
    /\ pc = "sb1"
    /\ save_data.len = 18 * SECTOR_SIZE - 1
    /\ saveblock1_data.len = SAVEBLOCK1_SIZE
    /\ DataRegion(save_data, 17) # Zeros(SECTOR_DATA_SIZE)
    /\ \A id \in DOMAIN sector_map : sector_map[id] # 17

====
